---- MODULE Spec2Model ----
(***************************************************************************)
(* GitHubHelper of obsbot/cogs/public/utils/github.py as a state machine.  *)
(*                                                                         *)
(* The helper runs inside one asyncio event loop: every `await` on the     *)
(* HTTP session or on asyncio.sleep is a suspension point, the code        *)
(* between two suspension points runs without interleaving.  One action    *)
(* of this module is one such uninterrupted block.                         *)
(***************************************************************************)
EXTENDS Integers, Sequences, FiniteSets, TLC

\* ------------------------------------------------------------------ bounds
MaxRetries == 3     \* largest `retries` argument of a direct get_with_retry call
MaxEvents == 2      \* check_suite events / direct calls accepted in one behaviour
MaxRuns == 2        \* longest workflow_runs list of a response
MaxJobs == 2        \* longest jobs list of a response
MaxArtifacts == 1   \* longest artifacts list of a response
MaxCommits == 3     \* most commits of a push event
MaxLimit == 2       \* largest configured commit_truncation_limit
MaxTicks == 1       \* clock advances in one behaviour
MaxPushes == 1      \* push events accepted in one behaviour
MaxCalls == 2       \* direct get_author_info calls in one behaviour

\* ------------------------------------------------------- program constants
DefaultRetries == 5
_commit_colour == 16777215
_skipped_commit_colour == 10197915
user_cache_max_age == 3600 * 24 * 7
_ci_failed_colour == 13632027
_ci_some_failed_colour == 16098851
_ci_passed_colour == 8311585

\* --------------------------------------------------------- python values
\* None, and the values r.json() produces.  JSON null parses to None, a JSON
\* object parses to a dict with the same members.
PyNone == [t |-> "None"]

JsonNull == [t |-> "null"]

JsonEmptyObject == [t |-> "object", keys |-> {}]

Json2Py(body) ==
    IF body.t = "null" THEN PyNone
    ELSE [body EXCEPT !.t = "dict"]

\* `not v` for the values above: None and the empty dict are falsy.
Falsy(v) == v.t = "None" \/ (v.t = "dict" /\ v.keys = {})

\* ------------------------------------------------------------ input data
Tasks == {"t1", "t2"}

SuiteIds == {101, 102}

Branches == {"master", "feature"}

Conclusions == {"success", "failure"}

\* artifact names as token sequences; `sub in name` is token membership
ArtifactNames == {<<"OBS", "macOS">>, <<"OBS", "win64">>, <<"OBS", "linux">>,
                  <<"win64", "macOS">>}

Contains(name, sub) == \E k \in 1..Len(name) : name[k] = sub

SeqsUpTo(S, n) == UNION {[1..m -> S] : m \in 0..n}

Runs == [check_suite_id : SuiteIds, head_branch : Branches]

RunsBody(l) == [t |-> "object", keys |-> {"workflow_runs"}, workflow_runs |-> l]

JobsOf(cs) == [k \in 1..Len(cs) |-> [name |-> k, conclusion |-> cs[k]]]

JobsBody(l) == [t |-> "object", keys |-> {"jobs"}, jobs |-> l]

ArtifactsOf(ns) == [k \in 1..Len(ns) |-> [id |-> k, name |-> ns[k]]]

ArtifactsBody(l) == [t |-> "object", keys |-> {"artifacts"}, artifacts |-> l]

DirectBody == [t |-> "object", keys |-> {"data"}, data |-> 1]

\* what one GET can end in: session.get raises, raise_for_status raises,
\* r.json() raises, or a parsed body
FailResponses == {[kind |-> "transport"], [kind |-> "status"], [kind |-> "badjson"]}

OkResponse(body) == [kind |-> "ok", body |-> body]

EmptyPayloads == {OkResponse(JsonNull), OkResponse(JsonEmptyObject)}

\* every response the API can give to the request of a stage
Responses(stage) ==
    FailResponses \cup EmptyPayloads \cup
    CASE stage = "runs" ->
           {OkResponse(RunsBody(l)) : l \in SeqsUpTo(Runs, MaxRuns)}
      [] stage = "jobs" ->
           {OkResponse(JobsBody(JobsOf(cs))) : cs \in SeqsUpTo(Conclusions, MaxJobs)}
      [] stage = "artifacts" ->
           {OkResponse(ArtifactsBody(ArtifactsOf(ns))) :
                ns \in SeqsUpTo(ArtifactNames, MaxArtifacts)}
      [] OTHER -> {OkResponse(DirectBody)}

\* ----------------------------------------------------------------- state
VARIABLES
    tasks,      \* the coroutines in flight: get_ci_results or get_with_retry calls
    state,      \* self.state: the nightly slots
    arrived,    \* history: number of calls started so far
    processed,  \* history: the task that processed an artifact list last
    user_cache, \* self.user_cache: username -> profile dict with _timestamp
    now,        \* time.time(), in seconds since the helper was constructed
    ticks,      \* history: number of clock advances so far
    commit_truncation_limit,    \* self.config['commit_truncation_limit']
    push,       \* the get_commit_messages coroutine
    call        \* a get_author_info coroutine called on its own

authorVars == <<user_cache, now, ticks, commit_truncation_limit, push, call>>

vars == <<tasks, state, arrived, processed,
          user_cache, now, ticks, commit_truncation_limit, push, call>>

NoRun == [check_suite_id |-> 0, head_branch |-> "none"]

NoCI == [build_success |-> FALSE, colour |-> 0, reaction_emote |-> "none",
         build_result |-> "none", message |-> <<>>, jobs |-> <<>>]

NoArtifact == [id |-> 0, name |-> <<>>, archive_download_url |-> <<0, 0>>]

IdleTask ==
    [phase |-> "idle", stage |-> "none", retries |-> 0, i |-> 0,
     attempts |-> 0, sleeps |-> 0, fetch_ok |-> FALSE, payload |-> JsonNull,
     check_suite_id |-> 0, run |-> NoRun, ci |-> NoCI,
     result |-> PyNone, exit |-> "none", arr |-> 0]

\* dict.get(key, None) on a missing key, and None used as a dict key or
\* formatted into a URL
Missing == "None"

Usernames == {"alice"}

CacheKeys == Usernames \cup {Missing}

\* what user_cache holds under a key: nothing, None (a JSON null body), or a dict
Absent == [kind |-> "absent"]

NullEntry == [kind |-> "None"]

IdlePush == [phase |-> "idle", brief |-> FALSE, rest |-> <<>>, out |-> <<>>,
             event |-> <<>>, requests |-> {}]

IdleCall == [phase |-> "idle", username |-> Missing, seen |-> Absent, at |-> 0,
             requests |-> 0, resp |-> [kind |-> "none"], result |-> NullEntry]

InitCore ==
    /\ tasks = [t \in Tasks |-> IdleTask]
    /\ state = [nightly_macos |-> NoArtifact, nightly_windows |-> NoArtifact]
    /\ arrived = 0
    /\ processed = "none"
    /\ user_cache = [k \in CacheKeys |-> Absent]
    /\ now = 0
    /\ ticks = 0
    /\ push = IdlePush
    /\ call = IdleCall

\* commit_truncation_limit is read by get_commit_messages alone: it is any
\* limit of at least one commit where pushes are formatted, and fixed elsewhere
Init == InitCore /\ commit_truncation_limit = MaxLimit

InitPush == InitCore /\ commit_truncation_limit \in 1..MaxLimit

\* ------------------------------------------------------- get_with_retry
\* Entering the loop `for i in range(retries)`: the first GET is issued when
\* there is at least one iteration, otherwise the loop body never runs.
LoopContinues_OneMore(i, retries) == i <= retries

LoopContinues(i, retries) == i < retries

get_with_retry(tk, stage, n) ==
    [tk EXCEPT !.stage = stage, !.retries = n, !.i = 0, !.sleeps = 0,
               !.fetch_ok = FALSE, !.payload = JsonNull,
               !.attempts = IF LoopContinues(0, n) THEN 1 ELSE 0,
               !.phase = IF LoopContinues(0, n) THEN "get" ELSE "exhausted"]

\* ------------------------------------------------------- get_ci_results
\* for run in runs['workflow_runs']: if run['check_suite_id'] == id: break
FindRun(runs, check_suite_id) ==
    LET hits == {k \in 1..Len(runs) : runs[k].check_suite_id = check_suite_id}
    IN IF hits = {} THEN 0 ELSE CHOOSE k \in hits : \A h \in hits : k <= h

JobNames(jobs, ok) ==
    LET sel == SelectSeq(jobs, LAMBDA j : (j.conclusion = "success") = ok)
    IN [k \in 1..Len(sel) |-> sel[k].name]

\* the if/elif/else on `failed`: colour, emote key, build_result, message[0]
BuildResult_AllFailedIsPartial(failed, total_jobs) ==
    IF failed = 0 THEN
        [colour |-> _ci_passed_colour, reaction_emote |-> "passed",
         build_result |-> "succeeded",
         summary |-> [line |-> "summary", text |-> "All jobs succeeded"]]
    ELSE IF failed <= total_jobs THEN
        [colour |-> _ci_some_failed_colour, reaction_emote |-> "partial",
         build_result |-> "partially failed",
         summary |-> [line |-> "summary", text |-> "out of jobs failed"]]
    ELSE
        [colour |-> _ci_failed_colour, reaction_emote |-> "failed",
         build_result |-> "failed",
         summary |-> [line |-> "summary", text |-> "All jobs failed"]]

BuildResult(failed, total_jobs) ==
    IF failed = 0 THEN
        [colour |-> _ci_passed_colour, reaction_emote |-> "passed",
         build_result |-> "succeeded",
         summary |-> [line |-> "summary", text |-> "All jobs succeeded"]]
    ELSE IF failed < total_jobs THEN
        [colour |-> _ci_some_failed_colour, reaction_emote |-> "partial",
         build_result |-> "partially failed",
         summary |-> [line |-> "summary", text |-> "out of jobs failed"]]
    ELSE
        [colour |-> _ci_failed_colour, reaction_emote |-> "failed",
         build_result |-> "failed",
         summary |-> [line |-> "summary", text |-> "All jobs failed"]]

\* lines 155-178; `jobs` is kept beside the outcome as history
Classify(jobs) ==
    LET total_jobs == Len(jobs)
        failed == Cardinality({k \in 1..Len(jobs) : jobs[k].conclusion # "success"})
        succeeded_names == JobNames(jobs, TRUE)
        failed_names == JobNames(jobs, FALSE)
        head == BuildResult(failed, total_jobs)
    IN [build_success |-> (failed = 0),
        colour |-> head.colour,
        reaction_emote |-> head.reaction_emote,
        build_result |-> head.build_result,
        jobs |-> jobs,
        message |->
            <<head.summary>>
            \o (IF succeeded_names # <<>>
                THEN <<[line |-> "Succeeded", names |-> succeeded_names]>> ELSE <<>>)
            \o (IF failed_names # <<>>
                THEN <<[line |-> "Failed", names |-> failed_names]>> ELSE <<>>)]

\* artifact['archive_download_url'] = .../suites/{check_suite_id}/artifacts/{id}
WithDownloadUrl(artifact, check_suite_id) ==
    [id |-> artifact.id, name |-> artifact.name,
     archive_download_url |-> <<check_suite_id, artifact.id>>]

NightlyCondition_AnyBranch(build_success, branch) == build_success

NightlyCondition(build_success, branch) == build_success /\ branch = "master"

StoreNightly_FirstWins(st, artifact) ==
    IF Contains(artifact.name, "macOS") THEN
        IF st.nightly_macos.id = 0 THEN [st EXCEPT !.nightly_macos = artifact] ELSE st
    ELSE IF Contains(artifact.name, "win64") THEN
        IF st.nightly_windows.id = 0 THEN [st EXCEPT !.nightly_windows = artifact] ELSE st
    ELSE st

\* one iteration of the artifact loop on the shared state
StoreNightly(st, artifact) ==
    IF Contains(artifact.name, "macOS") THEN [st EXCEPT !.nightly_macos = artifact]
    ELSE IF Contains(artifact.name, "win64") THEN [st EXCEPT !.nightly_windows = artifact]
    ELSE st

RECURSIVE ArtifactLoop(_, _, _, _, _)
ArtifactLoop(artifacts, k, st, check_suite_id, update) ==
    IF k > Len(artifacts) THEN st
    ELSE LET artifact == WithDownloadUrl(artifacts[k], check_suite_id)
         IN ArtifactLoop(artifacts, k + 1,
                         IF update THEN StoreNightly(st, artifact) ELSE st,
                         check_suite_id, update)

ArtifactsEntries(artifacts, check_suite_id) ==
    [k \in 1..Len(artifacts) |->
        [name |-> artifacts[k].name,
         url |-> WithDownloadUrl(artifacts[k], check_suite_id).archive_download_url]]

Finish(tk, result, exit) ==
    [tk EXCEPT !.phase = "done", !.result = result, !.exit = exit]

\* ran: whether the block ran the artifact loop
Outcome(tk, st, ran) == [task |-> tk, state |-> st, ran |-> ran]

AfterRuns(tk, runs, st) ==
    IF Falsy(runs) THEN Outcome(Finish(tk, PyNone, "runs_failed"), st, FALSE)
    ELSE LET k == FindRun(runs.workflow_runs, tk.check_suite_id)
         IN IF k = 0 THEN Outcome(Finish(tk, PyNone, "not_found"), st, FALSE)
            ELSE Outcome(get_with_retry([tk EXCEPT !.run = runs.workflow_runs[k]],
                                        "jobs", DefaultRetries), st, FALSE)

AfterJobs_FailureIsEmpty(tk, jobs, st) ==
    Outcome(get_with_retry([tk EXCEPT !.ci = Classify(IF Falsy(jobs) THEN <<>>
                                                      ELSE jobs.jobs)],
                           "artifacts", DefaultRetries), st, FALSE)

AfterJobs(tk, jobs, st) ==
    IF Falsy(jobs) THEN Outcome(Finish(tk, PyNone, "jobs_failed"), st, FALSE)
    ELSE Outcome(get_with_retry([tk EXCEPT !.ci = Classify(jobs.jobs)],
                                "artifacts", DefaultRetries), st, FALSE)

AfterArtifacts(tk, artifacts, st) ==
    IF Falsy(artifacts) THEN Outcome(Finish(tk, PyNone, "artifacts_failed"), st, FALSE)
    ELSE LET branch == tk.run.head_branch
             embed == [title |-> <<"Build", tk.ci.build_result>>,
                       description |-> tk.ci.message,
                       colour |-> tk.ci.colour,
                       Branch |-> branch,
                       Artifacts |-> ArtifactsEntries(artifacts.artifacts,
                                                      tk.check_suite_id)]
             result == [t |-> "tuple", embed |-> embed,
                        summary |-> tk.ci.message[1],
                        reaction_emote |-> tk.ci.reaction_emote]
         IN Outcome(Finish(tk, result, "ok"),
                    ArtifactLoop(artifacts.artifacts, 1, st, tk.check_suite_id,
                                 NightlyCondition(tk.ci.build_success, branch)),
                    TRUE)

\* the code that runs when get_with_retry returns value v to its caller
Resume(tk, v, st) ==
    CASE tk.stage = "runs" -> AfterRuns(tk, v, st)
      [] tk.stage = "jobs" -> AfterJobs(tk, v, st)
      [] tk.stage = "artifacts" -> AfterArtifacts(tk, v, st)
      [] OTHER -> Outcome(Finish(tk, v, "returned"), st, FALSE)

Apply(t, out) ==
    /\ tasks' = [tasks EXCEPT ![t] = out.task]
    /\ state' = out.state
    /\ processed' = IF out.ran THEN t ELSE processed

\* ---------------------------------------------------------------- actions
\* a check_suite event arrives and get_ci_results runs up to its first GET
get_ci_results(t, check_suite_id) ==
    /\ tasks[t].phase = "idle"
    /\ arrived < MaxEvents
    /\ arrived' = arrived + 1
    /\ tasks' = [tasks EXCEPT ![t] =
                   get_with_retry([IdleTask EXCEPT !.check_suite_id = check_suite_id,
                                             !.arr = arrived + 1],
                            "runs", DefaultRetries)]
    /\ UNCHANGED <<state, processed>>
    /\ UNCHANGED authorVars

\* get_with_retry(url, retries=n) called on its own
RetryStart(t, n) ==
    /\ tasks[t].phase = "idle"
    /\ arrived < MaxEvents
    /\ arrived' = arrived + 1
    /\ LET tk == get_with_retry([IdleTask EXCEPT !.arr = arrived + 1], "direct", n)
       IN tasks' = [tasks EXCEPT ![t] =
                      IF tk.phase = "exhausted" THEN Finish(tk, PyNone, "returned")
                      ELSE tk]
    /\ UNCHANGED <<state, processed>>
    /\ UNCHANGED authorVars

\* the pending GET of task t completes with resp
GetResponse(t, resp) ==
    /\ tasks[t].phase = "get"
    /\ UNCHANGED arrived
    /\ UNCHANGED authorVars
    /\ IF resp.kind = "ok"
       THEN Apply(t, Resume([tasks[t] EXCEPT !.fetch_ok = TRUE, !.payload = resp.body],
                            Json2Py(resp.body), state))
       ELSE /\ tasks' = [tasks EXCEPT ![t].phase = "sleep"]
            /\ UNCHANGED <<state, processed>>

\* asyncio.sleep(retry_interval) of task t is over: next iteration or give up
SleepDone(t) ==
    /\ tasks[t].phase = "sleep"
    /\ UNCHANGED arrived
    /\ UNCHANGED authorVars
    /\ LET tk == [tasks[t] EXCEPT !.sleeps = @ + 1, !.i = @ + 1]
       IN IF LoopContinues(tk.i, tk.retries)
          THEN /\ tasks' = [tasks EXCEPT ![t] =
                              [tk EXCEPT !.phase = "get", !.attempts = @ + 1]]
               /\ UNCHANGED <<state, processed>>
          ELSE Apply(t, Resume(tk, PyNone, state))

\* the caller takes the result; the coroutine is gone
Return(t) ==
    /\ tasks[t].phase = "done"
    /\ tasks' = [tasks EXCEPT ![t] = IdleTask]
    /\ UNCHANGED <<state, arrived, processed>>
    /\ UNCHANGED authorVars

\* ------------------------------------------------------- get_author_info
\* the profile request of a username can end in: session.get raises, r.json()
\* raises, or a parsed body whatever the HTTP status (there is no
\* raise_for_status here): a profile, an error object, or null.  A profile
\* has a display name or none; /users/None is one account, without name.
ProfileBody(login, name) ==
    [t |-> "object", kind |-> "profile", login |-> login, name |-> name]

ErrorBody == [t |-> "object", kind |-> "error", message |-> "Not Found"]

AuthorResponses(username) ==
    {[kind |-> "transport"], [kind |-> "badjson"],
     [kind |-> "json", status |-> 404, body |-> ErrorBody],
     [kind |-> "json", status |-> 200, body |-> JsonNull]}
    \cup {[kind |-> "json", status |-> 200, body |-> ProfileBody(username, n)] :
              n \in IF username = Missing THEN {Missing} ELSE {Missing, "Full Name"}}

\* lines 225-228: return the cached entry, raise, or go on to the request
IsReturnedFromCache(age) == age > user_cache_max_age

AuthorLookup(cache, username, t) ==
    IF cache[username] = Absent THEN "fetch"
    ELSE IF cache[username] = NullEntry THEN "raise"    \* None.get(...)
    ELSE IF IsReturnedFromCache(t - cache[username]._timestamp) THEN "hit"
    ELSE "fetch"

\* self.user_cache.get(username, None)
CacheGet(cache, username) ==
    IF cache[username] = Absent THEN NullEntry ELSE cache[username]

\* lines 230-241 once the request has ended in resp at time t
StoresBody(resp) == resp.kind = "json"

AuthorFetched(cache, username, resp, t) ==
    IF ~StoresBody(resp) THEN
        [cache |-> cache, author |-> CacheGet(cache, username)]
    ELSE IF resp.body.t = "null" THEN
        \* user_cache[username] = None, then None['_timestamp'] = ... raises
        [cache |-> [cache EXCEPT ![username] = NullEntry], author |-> NullEntry]
    ELSE
        LET author == [kind |-> resp.body.kind,
                       login |-> IF resp.body.kind = "profile"
                                 THEN resp.body.login ELSE Missing,
                       name |-> IF resp.body.kind = "profile"
                                THEN resp.body.name ELSE Missing,
                       _timestamp |-> t]
        IN [cache |-> [cache EXCEPT ![username] = author], author |-> author]

\* ---------------------------------------------------- get_commit_messages
\* the author block of a commit of the event
CommitAuthors == {[username |-> "alice", name |-> "Alice"],
                  [username |-> Missing, name |-> "Alice"],
                  [username |-> Missing, name |-> Missing]}

CommitMessage == <<"subject", "", "body">>

CommitsOf(as) ==
    [k \in 1..Len(as) |-> [id |-> k, author |-> as[k], message |-> CommitMessage]]

PushEvents == {CommitsOf(as) : as \in SeqsUpTo(CommitAuthors, MaxCommits)}

\* lines 36-43
IsTruncated(brief, commits, limit) == brief /\ Len(commits) > limit

\* commits[-2]['id']
LastHash_OfLastCommit(commits) == commits[Len(commits)].id

LastHash(commits) == commits[Len(commits) - 1].id

Truncate(brief, commits, limit) ==
    IF IsTruncated(brief, commits, limit) THEN
        LET first_hash == commits[1].id
            last_hash == LastHash(commits)
            embed == [kind |-> "skipped", title |-> Len(commits) - 1,
                      colour |-> _skipped_commit_colour,
                      url |-> <<first_hash, last_hash>>]
        IN [out |-> << <<embed, Missing>> >>,
            rest |-> SubSeq(commits, Len(commits), Len(commits))]
    ELSE [out |-> <<>>, rest |-> commits]

\* lines 59-69; an error object has no 'name' key
AuthorRaises(author) == author # NullEntry /\ author.kind = "error"

AuthorField(author, author_name) ==
    IF author # NullEntry THEN
        IF author.name # Missing /\ author.name # author.login
        THEN [name |-> <<author.name, author.login>>, url |-> author.login]
        ELSE [name |-> <<author.login>>, url |-> author.login]
    ELSE IF author_name # Missing THEN [name |-> <<author_name>>, url |-> Missing]
    ELSE [name |-> <<"<No Name>">>, url |-> Missing]

CommitEntry(commit, author, brief) ==
    << [kind |-> "commit", title |-> commit.message[1],
        colour |-> _commit_colour,
        description |-> IF Len(commit.message) > 2 /\ ~brief
                        THEN SubSeq(commit.message, 3, Len(commit.message))
                        ELSE <<>>,
        author |-> AuthorField(author, commit.author.name)],
       commit.id >>

\* the commit at the head of p.rest got `author` from get_author_info
WithAuthor(p, author) ==
    IF AuthorRaises(author) THEN [p EXCEPT !.phase = "raised", !.out = <<>>]
    ELSE [p EXCEPT !.out = Append(@, CommitEntry(Head(p.rest), author, p.brief)),
                   !.rest = Tail(@)]

\* the loop of lines 45-74 up to its next request, or to the return; line 57
\* awaits get_author_info for every commit, whatever its username
RECURSIVE CommitLoop(_, _, _)
CommitLoop(p, cache, t) ==
    IF p.phase = "raised" THEN p
    ELSE IF p.rest = <<>> THEN [p EXCEPT !.phase = "done"]
    ELSE LET username == Head(p.rest).author.username
             look == AuthorLookup(cache, username, t)
         IN CASE look = "hit" -> CommitLoop(WithAuthor(p, cache[username]), cache, t)
              [] look = "raise" -> [p EXCEPT !.phase = "raised", !.out = <<>>]
              [] OTHER -> [p EXCEPT !.phase = "author",
                                    !.requests = @ \cup {Head(p.rest).id}]

\* ---------------------------------------------------------------- actions
\* a push event arrives and get_commit_messages runs up to its first request
get_commit_messages(commits, brief) ==
    /\ push.phase = "idle"
    /\ arrived < MaxPushes
    /\ arrived' = arrived + 1
    /\ LET cut == Truncate(brief, commits, commit_truncation_limit)
       IN push' = CommitLoop([phase |-> "loop", brief |-> brief, rest |-> cut.rest,
                              out |-> cut.out, event |-> commits, requests |-> {}],
                             user_cache, now)
    /\ UNCHANGED <<tasks, state, processed, user_cache, now, ticks,
                   commit_truncation_limit, call>>

\* the profile request of the push ends in resp
PushAuthorResponse(resp) ==
    /\ push.phase = "author"
    /\ LET username == Head(push.rest).author.username
           got == AuthorFetched(user_cache, username, resp, now)
       IN /\ user_cache' = got.cache
          /\ push' = CommitLoop(WithAuthor(push, got.author), got.cache, now)
    /\ UNCHANGED <<tasks, state, arrived, processed, now, ticks,
                   commit_truncation_limit, call>>

\* the caller takes the list, or the exception
PushReturn ==
    /\ push.phase \in {"done", "raised"}
    /\ push' = IdlePush
    /\ UNCHANGED <<tasks, state, arrived, processed, user_cache, now, ticks,
                   commit_truncation_limit, call>>

\* get_author_info(username) called on its own
get_author_info(username) ==
    /\ call.phase = "idle"
    /\ arrived < MaxCalls
    /\ arrived' = arrived + 1
    /\ LET look == AuthorLookup(user_cache, username, now)
           c == [IdleCall EXCEPT !.username = username, !.at = now,
                                 !.seen = user_cache[username]]
       IN call' = CASE look = "hit" ->
                         [c EXCEPT !.phase = "done", !.result = user_cache[username]]
                    [] look = "raise" -> [c EXCEPT !.phase = "raised"]
                    [] OTHER -> [c EXCEPT !.phase = "get", !.requests = 1]
    /\ UNCHANGED <<tasks, state, processed, user_cache, now, ticks,
                   commit_truncation_limit, push>>

AuthorCallResponse(resp) ==
    /\ call.phase = "get"
    /\ LET got == AuthorFetched(user_cache, call.username, resp, now)
       IN /\ user_cache' = got.cache
          /\ call' = [call EXCEPT !.phase = "done", !.resp = resp,
                                  !.result = got.author]
    /\ UNCHANGED <<tasks, state, arrived, processed, now, ticks,
                   commit_truncation_limit, push>>

AuthorCallReturn ==
    /\ call.phase \in {"done", "raised"}
    /\ call' = IdleCall
    /\ UNCHANGED <<tasks, state, arrived, processed, user_cache, now, ticks,
                   commit_truncation_limit, push>>

\* time passes
Tick(d) ==
    /\ ticks < MaxTicks
    /\ ticks' = ticks + 1
    /\ now' = now + d
    /\ UNCHANGED <<tasks, state, arrived, processed, user_cache,
                   commit_truncation_limit, push, call>>

\* ------------------------------------------------------------------ claims
CIStages == {"runs", "jobs", "artifacts"}

\* C1: a get_with_retry call with N retries never issues more than N GETs; when
\* every attempt failed it has issued exactly N GETs, slept N times and returns
\* None; when K < N attempts failed and the next one succeeded it has issued
\* K+1 GETs, slept K times and returns the parsed body of that attempt.
C1_RetryAttempts ==
    \A t \in Tasks :
        LET tk == tasks[t] IN
        tk.stage = "direct" =>
            /\ tk.attempts <= tk.retries
            /\ tk.sleeps <= tk.attempts
            /\ (tk.phase = "done" /\ ~tk.fetch_ok) =>
                   /\ tk.attempts = tk.retries
                   /\ tk.sleeps = tk.retries
                   /\ tk.result = PyNone
            /\ (tk.phase = "done" /\ tk.fetch_ok) =>
                   /\ tk.sleeps < tk.retries
                   /\ tk.attempts = tk.sleeps + 1
                   /\ tk.payload.t = "null" => tk.result = PyNone
                   /\ tk.payload.t = "object" =>
                          tk.result.t = "dict" /\ tk.result.keys = tk.payload.keys

\* one call gave up after two or more failed attempts while another returned
\* a parsed object after at least one failed attempt
C1_Witness ==
    \E t, u \in Tasks :
        /\ tasks[t].stage = "direct" /\ tasks[t].phase = "done"
        /\ ~tasks[t].fetch_ok /\ tasks[t].retries >= 2
        /\ tasks[u].stage = "direct" /\ tasks[u].phase = "done"
        /\ tasks[u].fetch_ok /\ tasks[u].sleeps >= 1
        /\ tasks[u].result.t = "dict"

AllSucceeded(jobs) == \A k \in 1..Len(jobs) : jobs[k].conclusion = "success"

SlotOf(entry) == [id |-> entry.url[2], name |-> entry.name,
                  archive_download_url |-> entry.url]

LastIndex(S) == CHOOSE k \in S : \A h \in S : h <= k

FinishesOk(t) ==
    tasks[t].phase # "done" /\ tasks'[t].phase = "done" /\ tasks'[t].exit = "ok"

C3_Step(t) ==
    LET tk == tasks'[t]
        entries == tk.result.embed.Artifacts
        cond == AllSucceeded(tk.ci.jobs) /\ tk.run.head_branch = "master"
        mac == {k \in 1..Len(entries) : Contains(entries[k].name, "macOS")}
        win == {k \in 1..Len(entries) : Contains(entries[k].name, "win64")
                                        /\ ~Contains(entries[k].name, "macOS")}
    IN /\ state'.nightly_macos =
              IF cond /\ mac # {} THEN SlotOf(entries[LastIndex(mac)])
              ELSE state.nightly_macos
       /\ state'.nightly_windows =
              IF cond /\ win # {} THEN SlotOf(entries[LastIndex(win)])
              ELSE state.nightly_windows

\* C3: the nightly slots change only in the step in which a get_ci_results call
\* processes its artifact list, and only when every job of its run succeeded
\* and the run's branch is master; then nightly_macos holds the last artifact
\* whose name contains macOS, nightly_windows the last one whose name contains
\* win64 and not macOS, and a slot no artifact of the list selects is unchanged.
C3_NightlyUpdate ==
    [][ /\ \A t \in Tasks : FinishesOk(t) => C3_Step(t)
        /\ (\A t \in Tasks : ~FinishesOk(t)) => state' = state ]_vars

\* a fully succeeded master run stored an artifact naming both platforms in
\* the macOS slot only
C3_Witness ==
    \E t \in Tasks :
        LET tk == tasks[t] IN
        /\ tk.phase = "done" /\ tk.exit = "ok"
        /\ tk.ci.build_success /\ tk.run.head_branch = "master"
        /\ Len(tk.result.embed.Artifacts) >= 1
        /\ tk.result.embed.Artifacts[1].name = <<"win64", "macOS">>
        /\ state.nightly_macos.name = <<"win64", "macOS">>
        /\ state.nightly_macos.archive_download_url[1] = tk.check_suite_id
        /\ state.nightly_windows = NoArtifact

FailedJobs(jobs) == {k \in 1..Len(jobs) : jobs[k].conclusion # "success"}

HasLine(message, kind) == \E k \in 1..Len(message) : message[k].line = kind

Verdict(tk, build_result, colour, emote) ==
    /\ tk.result.embed.title = <<"Build", build_result>>
    /\ tk.result.embed.colour = colour
    /\ tk.result.reaction_emote = emote

C4_Lines(tk) ==
    LET jobs == tk.ci.jobs
        failed == Cardinality(FailedJobs(jobs))
        message == tk.result.embed.description
    IN /\ HasLine(message, "Succeeded") <=> failed < Len(jobs)
       /\ HasLine(message, "Failed") <=> failed > 0

\* C4 as stated: 0 failed gives succeeded, 0 < failed < total gives partially
\* failed, failed = total gives failed, each with its colour and emote; the
\* Succeeded line is there exactly when a job succeeded and the Failed line
\* exactly when a job failed.
C4_Original ==
    \A t \in Tasks :
        LET tk == tasks[t]
            failed == Cardinality(FailedJobs(tk.ci.jobs))
            total == Len(tk.ci.jobs)
        IN (tk.phase = "done" /\ tk.exit = "ok") =>
            /\ failed = 0 => Verdict(tk, "succeeded", _ci_passed_colour, "passed")
            /\ (0 < failed /\ failed < total) =>
                   Verdict(tk, "partially failed", _ci_some_failed_colour, "partial")
            /\ failed = total => Verdict(tk, "failed", _ci_failed_colour, "failed")
            /\ C4_Lines(tk)

\* C4 amended: as C4, with failed = total giving failed only when the job list
\* is not empty; an empty job list has 0 failed jobs and gives succeeded.
C4_Amended ==
    \A t \in Tasks :
        LET tk == tasks[t]
            failed == Cardinality(FailedJobs(tk.ci.jobs))
            total == Len(tk.ci.jobs)
        IN (tk.phase = "done" /\ tk.exit = "ok") =>
            /\ failed = 0 => Verdict(tk, "succeeded", _ci_passed_colour, "passed")
            /\ (0 < failed /\ failed < total) =>
                   Verdict(tk, "partially failed", _ci_some_failed_colour, "partial")
            /\ (failed = total /\ total > 0) =>
                   Verdict(tk, "failed", _ci_failed_colour, "failed")
            /\ C4_Lines(tk)

\* a run with one failed job out of two was reported, with both lines
C4_Witness ==
    \E t \in Tasks :
        LET tk == tasks[t] IN
        /\ tk.phase = "done" /\ tk.exit = "ok"
        /\ Len(tk.ci.jobs) = 2 /\ Cardinality(FailedJobs(tk.ci.jobs)) = 1
        /\ tk.result.embed.title = <<"Build", "partially failed">>
        /\ HasLine(tk.result.embed.description, "Succeeded")
        /\ HasLine(tk.result.embed.description, "Failed")

\* C5 as stated: get_with_retry returns None only when no attempt succeeded,
\* and get_ci_results takes a "fetch failed" branch only when the fetch failed.
C5_FailureDistinguishable ==
    \A t \in Tasks :
        LET tk == tasks[t] IN
        tk.phase = "done" =>
            /\ (tk.stage = "direct" /\ tk.result = PyNone) => ~tk.fetch_ok
            /\ tk.exit \in {"runs_failed", "jobs_failed", "artifacts_failed"} =>
                   ~tk.fetch_ok

\* the step in which the retry loop of task t ends without a successful attempt
GaveUp(t) ==
    tasks[t].phase = "sleep" /\ tasks'[t].attempts # tasks[t].attempts + 1

NotFound(t) ==
    tasks[t].phase = "get" /\ tasks[t].stage = "runs" /\ tasks'[t].exit = "not_found"

\* C6: when a fetch of get_ci_results gives up, or no run matches the event,
\* the call ends in that step with result None and the nightly slots are
\* left as they were.
C6_NoPartialResult ==
    [][ \A t \in Tasks :
          (tasks[t].stage \in CIStages /\ (GaveUp(t) \/ NotFound(t))) =>
              /\ tasks'[t].phase = "done"
              /\ tasks'[t].result = PyNone
              /\ state' = state ]_vars

\* the artifacts fetch of a fully succeeded master run gave up after an earlier
\* call had filled a slot: no descriptor, the slot still holds the earlier artifact
C6_Witness ==
    \E t \in Tasks :
        LET tk == tasks[t] IN
        /\ tk.phase = "done" /\ tk.exit = "artifacts_failed"
        /\ ~tk.fetch_ok /\ tk.attempts = DefaultRetries
        /\ tk.ci.build_success /\ tk.run.head_branch = "master"
        /\ tk.result = PyNone
        /\ state.nightly_macos # NoArtifact

WritesTo(tk, slot) ==
    LET entries == tk.result.embed.Artifacts
    IN IF slot = "nightly_macos"
       THEN {k \in 1..Len(entries) : Contains(entries[k].name, "macOS")}
       ELSE {k \in 1..Len(entries) : Contains(entries[k].name, "win64")
                                     /\ ~Contains(entries[k].name, "macOS")}

NightlyRun(tk) ==
    /\ tk.phase = "done" /\ tk.exit = "ok"
    /\ AllSucceeded(tk.ci.jobs) /\ tk.run.head_branch = "master"

\* C10: when two get_ci_results calls for fully succeeded master runs have both
\* completed, every slot both of them wrote holds the artifact of the call
\* that processed its artifact list last, whichever event arrived first.
C10_LastWriteWins ==
    \A t, u \in Tasks :
        (t # u /\ NightlyRun(tasks[t]) /\ NightlyRun(tasks[u]) /\ processed = t) =>
            \A slot \in {"nightly_macos", "nightly_windows"} :
                (WritesTo(tasks[t], slot) # {} /\ WritesTo(tasks[u], slot) # {}) =>
                    state[slot] = SlotOf(tasks[t].result.embed.Artifacts[
                                            LastIndex(WritesTo(tasks[t], slot))])

\* the event of t arrived before that of u, u processed its artifacts first, and
\* the macOS slot holds the artifact of t, the older run
C10_Witness ==
    \E t, u \in Tasks :
        /\ NightlyRun(tasks[t]) /\ NightlyRun(tasks[u])
        /\ tasks[t].arr < tasks[u].arr
        /\ processed = t
        /\ tasks[t].check_suite_id # tasks[u].check_suite_id
        /\ WritesTo(tasks[t], "nightly_macos") # {}
        /\ WritesTo(tasks[u], "nightly_macos") # {}
        /\ state.nightly_macos.archive_download_url[1] = tasks[t].check_suite_id

IsDict(entry) == entry # Absent /\ entry # NullEntry

\* C2 as stated: a call that finds a profile younger than max_age returns it
\* without a request; a call that finds no entry issues exactly one request.
C2_FreshEntryIsReturned ==
    /\ (call.phase # "idle" /\ IsDict(call.seen) /\ call.seen.kind = "profile"
            /\ call.at - call.seen._timestamp < user_cache_max_age) =>
           /\ call.requests = 0
           /\ call.phase = "done" /\ call.result = call.seen
    /\ (call.phase # "idle" /\ call.seen = Absent) => call.requests = 1

\* the request failed: no response, no parsable body, or a non-2xx status
RequestFailed(resp) ==
    \/ resp.kind \in {"transport", "badjson"}
    \/ resp.kind = "json" /\ resp.status \notin 200..299

\* C9 as stated: a call whose request failed does not raise, returns what the
\* cache held for the username and leaves that entry as it was.
C9_FailureKeepsCache ==
    (call.phase = "done" /\ call.requests = 1 /\ RequestFailed(call.resp)) =>
        /\ user_cache[call.username] = call.seen
        /\ call.result = (IF call.seen = Absent THEN NullEntry ELSE call.seen)

Truncated == push.brief /\ Len(push.event) > commit_truncation_limit

C8_NoLookupWithoutUsername ==
    /\ \A id \in push.requests : push.event[id].author.username # Missing
    /\ user_cache[Missing] = Absent
    /\ \A k \in 1..Len(push.out) :
          LET embed == push.out[k][1] IN
          (embed.kind = "commit"
              /\ push.event[push.out[k][2]].author.username = Missing) =>
             embed.author.name =
                 (IF push.event[push.out[k][2]].author.name # Missing
                  THEN <<push.event[push.out[k][2]].author.name>>
                  ELSE <<"<No Name>">>)

\* ---------------------------------------------------------- specifications
\* direct get_with_retry calls, two of them possibly in flight
NextRetry ==
    \E t \in Tasks :
        \/ \E n \in 0..MaxRetries : RetryStart(t, n)
        \/ \E resp \in Responses(tasks[t].stage) : GetResponse(t, resp)
        \/ SleepDone(t)
        \/ Return(t)

SpecRetry == Init /\ [][NextRetry]_vars

\* check_suite events handled one after the other
NextCI ==
    \/ \E id \in SuiteIds : get_ci_results("t1", id)
    \/ \E resp \in Responses(tasks["t1"].stage) : GetResponse("t1", resp)
    \/ SleepDone("t1")
    \/ Return("t1")

SpecCI == Init /\ [][NextCI]_vars

\* what the API answers a call whose run is on master and fully succeeded
NightlyResponses(tk) ==
    FailResponses \cup
    CASE tk.stage = "runs" ->
           {OkResponse(RunsBody(<<[check_suite_id |-> tk.check_suite_id,
                                   head_branch |-> "master"]>>))}
      [] tk.stage = "jobs" ->
           {OkResponse(JobsBody(JobsOf(<<"success">>)))}
      [] OTHER ->
           {OkResponse(ArtifactsBody(ArtifactsOf(ns))) :
                ns \in SeqsUpTo(ArtifactNames, MaxArtifacts)}

\* one check_suite event per task, both of fully succeeded master runs,
\* handled concurrently
RaceStart(t, check_suite_id) ==
    /\ arrived < Cardinality(Tasks)
    /\ get_ci_results(t, check_suite_id)

NextRace ==
    \E t \in Tasks :
        \/ \E id \in SuiteIds : RaceStart(t, id)
        \/ \E resp \in NightlyResponses(tasks[t]) : GetResponse(t, resp)
        \/ SleepDone(t)
        \/ Return(t)

SpecRace == Init /\ [][NextRace]_vars

\* get_author_info calls, one at a time, while time passes
NextAuthor ==
    \/ \E u \in Usernames : get_author_info(u)
    \/ \E resp \in AuthorResponses(call.username) : AuthorCallResponse(resp)
    \/ AuthorCallReturn
    \/ \E d \in {1, user_cache_max_age, user_cache_max_age + 1} : Tick(d)

SpecAuthor == Init /\ [][NextAuthor]_vars

\* push events, one at a time, while time passes
NextPush ==
    \/ \E commits \in PushEvents, brief \in BOOLEAN : get_commit_messages(commits, brief)
    \/ /\ push.phase = "author"
       /\ \E resp \in AuthorResponses(Head(push.rest).author.username) :
              PushAuthorResponse(resp)
    \/ PushReturn
    \/ Tick(user_cache_max_age + 1)

SpecPush == InitPush /\ [][NextPush]_vars

====
